---- MODULE Spec2Model ----
(***************************************************************************)
(* State-machine model of ReCaptchaAPIServer (src/api_solver.py): the      *)
(* browser pool (an asyncio.Queue of (index, browser) handles), the        *)
(* result mapping self.results with its results.json file, the two HTTP    *)
(* handlers and the per-job worker coroutine _solve_recaptcha, cut into    *)
(* one action per await point of the single-threaded event loop.           *)
(***************************************************************************)
EXTENDS Integers, Sequences, FiniteSets, TLC

\* ------------------------------------------------------------------ bounds
\* number of jobs that can be admitted in one run of the process
MaxJobs == 2
\* --thread: the number of browsers put into the pool at startup
PoolSize == 1
\* the last reading of the clock
MaxTime == 2

\* ------------------------------------------------------- values and strings
NoException == "NoException"

\* task ids: str(uuid.uuid4()); 0 stands for an id of an earlier process run
Jobs == 1..MaxJobs
OldId == 0
Ids == {OldId} \cup Jobs

\* Python strings the code compares by content, as character sequences
Chars(s) ==
    CASE s = "CAPTCHA_FAIL" -> <<"C","A","P","T","C","H","A","_","F","A","I","L">>
      [] s = "CAPTCHA_NOT_READY" -> <<"C","A","P","T","C","H","A","_","N","O","T","_","R","E","A","D","Y">>
      [] s = "tok-xyz" -> <<"t","o","k","-","x","y","z">>
      [] s = "value" -> <<"v","a","l","u","e">>
      [] s = "elapsed_time" -> <<"e","l","a","p","s","e","d","_","t","i","m","e">>
      [] OTHER -> <<>>

\* tokens solver.solve_recaptcha can return
Tokens == {"tok-xyz"}

\* a str value and a dict value of self.results
StrVal(s) == [type |-> "str", str |-> s]
DictVal(v, e) == [type |-> "dict", dict |-> [value |-> v, elapsed_time |-> e]]

\* x in s for two Python strings: s has x as a contiguous substring
IsSubstring(x, s) ==
    \E i \in 0..(Len(s) - Len(x)) : SubSeq(s, i + 1, i + Len(x)) = x

\* Python's  needle in result : substring test on a str, key test on a dict
PyIn(needle, result) ==
    IF result.type = "str"
    THEN IsSubstring(Chars(needle), Chars(result.str))
    ELSE needle \in DOMAIN result.dict

\* the local start_time before line 177 has bound it
Unset == -1

\* the local proxy when no proxy was selected (None)
NoProxy == <<>>

\* -------------------------------------------------------------- proxy lines
IsSpace(c) == c = " "

RECURSIVE LStrip(_)
LStrip(s) == IF s # <<>> /\ IsSpace(Head(s)) THEN LStrip(Tail(s)) ELSE s

RECURSIVE RStrip(_)
RStrip(s) ==
    IF s # <<>> /\ IsSpace(s[Len(s)]) THEN RStrip(SubSeq(s, 1, Len(s) - 1)) ELSE s

\* str.strip()
Strip(s) == LStrip(RStrip(s))

\* str.split(':'): the fields between the separators, empty fields kept
RECURSIVE SplitFrom(_, _, _)
SplitFrom(s, sep, cur) ==
    IF s = <<>> THEN <<cur>>
    ELSE IF Head(s) = sep THEN <<cur>> \o SplitFrom(Tail(s), sep, <<>>)
    ELSE SplitFrom(Tail(s), sep, Append(cur, Head(s)))

Split(s, sep) == SplitFrom(s, sep, <<>>)

\* [line.strip() for line in proxy_file if line.strip()]
RECURSIVE ReadProxies(_)
ReadProxies(lines) ==
    IF lines = <<>> THEN <<>>
    ELSE IF Strip(Head(lines)) # <<>>
         THEN <<Strip(Head(lines))>> \o ReadProxies(Tail(lines))
         ELSE ReadProxies(Tail(lines))

\* contents proxies.txt can have when a job opens it (raw lines)
Line1 == <<"a">>
Line2 == <<"a", ":", "a">>
Line3 == <<" ", "a", ":", "a", ":", "a", " ">>
Line4 == <<"a", ":", "a", ":", "a", ":", "a">>
Line5 == <<"a", ":", "a", ":", "a", ":", "a", ":", "a">>
Line6 == <<"a", ":", "a", ":", "a", ":", "a", ":", "a", ":", "a">>
Blank == <<" ", " ">>
ProxyFiles ==
    { <<>>, <<Blank>>, <<Blank, Line3>>, <<Line5, Line4>>, <<Line2>>, <<Line1, Line6>> }

\* ------------------------------------------------------------- results.json
Absent == [state |-> "absent"]
Malformed == [state |-> "malformed"]
Undecodable == [state |-> "undecodable"]
Stored(m) == [state |-> "ok", content |-> m]

EmptyMap == [k \in {} |-> StrVal("CAPTCHA_NOT_READY")]
OldMap == [k \in {OldId} |-> DictVal("CAPTCHA_FAIL", 0)]

\* what results.json can hold when the process starts: nothing, text that is
\* not JSON (json.JSONDecodeError), bytes that are not text in the locale's
\* encoding (UnicodeDecodeError), or a mapping
InitialDisks == {Absent, Malformed, Undecodable, Stored(OldMap)}

\* _load_results lets through what is neither json.JSONDecodeError nor IOError
LoadRaises(d) == d.state = "undecodable"

\* _load_results: the file's mapping, or {} when the file is absent or not
\* JSON (when it raises, self.results is never bound: {} stands for that)
LoadResults(d) == IF d.state = "ok" THEN d.content ELSE EmptyMap

\* SetItem binding self.results to a new dict that holds the one entry
SetItem_Replaces(m, key, val) == [k \in {key} |-> val]

\* self.results[key] = val
SetItem(m, key, val) ==
    [k \in DOMAIN m \cup {key} |-> IF k = key THEN val ELSE m[k]]

VARIABLES
    phase,          \* "crashed" (__init__ raised), "starting" (before_serving
                    \* running), "serving", "aborted"
    launched,       \* loop variable _ of _initialize_browser: browsers put so far
    browser_pool,   \* self.browser_pool: FIFO of handle indices
    proxy_support,  \* self.proxy_support
    results,        \* self.results
    disk,           \* results.json
    save_failed,    \* _save_results has logged "Error saving results to file"
    pc,             \* per job: position of its _solve_recaptcha task
    index,          \* per job: local index (the handle it took), 0 if none
    proxy,          \* per job: local proxy
    context,        \* per job: its browsing context: "none", "open", "closed"
    exc,            \* per job: the exception its task ended with
    start_time,     \* per job: local start_time
    elapsed_time,   \* per job: local elapsed_time
    now,            \* time.time(); it advances in TimedSpec only
    resp            \* the last /recaptcha request and its response

vars == <<phase, launched, browser_pool, proxy_support, results, disk, save_failed, pc,
          index, proxy, context, exc, start_time, elapsed_time, now, resp>>

workerVars == <<pc, index, proxy, context, exc, start_time, elapsed_time>>

\* request arguments: request.args.get(name) is None when the name is absent
NoArg == [given |-> FALSE]
Arg(v) == [given |-> TRUE, val |-> v]

\* the id argument of /result: a task id, or EmptyId for the empty string
EmptyId == -1
IdArgs == {NoArg} \cup {Arg(i) : i \in Ids \cup {EmptyId}}

\* the url and sitekey arguments of /recaptcha
StrArgs == {NoArg, Arg(""), Arg("x")}

\* not arg, for an optional string argument
Falsy(a) == ~a.given \/ a.val = ""

\* not task_id
FalsyId(a) == ~a.given \/ a.val = EmptyId

\* an HTTP response: jsonify(body), status
Response(status, body) == [status |-> status, body |-> body]

\* a /recaptcha request with the response it got
Served(url, sitekey, r) == [url |-> url, sitekey |-> sitekey, status |-> r.status, body |-> r.body]

NoResp == Served(NoArg, NoArg, Response(0, [none |-> TRUE]))

\* __init__: results loaded, empty pool, nothing served yet; an exception of
\* _load_results leaves no server
Init ==
    /\ disk \in InitialDisks
    /\ phase = IF LoadRaises(disk) THEN "crashed" ELSE "starting"
    /\ launched = 0
    /\ browser_pool = <<>>
    /\ proxy_support \in BOOLEAN
    /\ results = LoadResults(disk)
    /\ save_failed = FALSE
    /\ pc = [j \in Jobs |-> "none"]
    /\ index = [j \in Jobs |-> 0]
    /\ proxy = [j \in Jobs |-> NoProxy]
    /\ context = [j \in Jobs |-> "none"]
    /\ exc = [j \in Jobs |-> NoException]
    /\ start_time = [j \in Jobs |-> Unset]
    /\ elapsed_time = [j \in Jobs |-> 0]
    /\ now = 0
    /\ resp = NoResp

\* ---------------------------------------------------------------- startup
\* LaunchBrowser with a launch failure logged and skipped instead of raised
LaunchBrowser_SkipsFailure ==
    /\ phase = "starting"
    /\ launched < PoolSize
    /\ \E ok \in BOOLEAN :
         IF ok
         THEN /\ browser_pool' = Append(browser_pool, launched + 1)
              /\ launched' = launched + 1
              /\ phase' = phase
         ELSE /\ launched' = launched + 1
              /\ UNCHANGED <<browser_pool, phase>>
    /\ UNCHANGED <<proxy_support, results, disk, save_failed, workerVars, now, resp>>

\* _initialize_browser, one loop iteration: launch a browser and put it; a
\* launch that raises propagates through _startup and aborts serving
LaunchBrowser ==
    /\ phase = "starting"
    /\ launched < PoolSize
    /\ \E ok \in BOOLEAN :
         IF ok
         THEN /\ browser_pool' = Append(browser_pool, launched + 1)
              /\ launched' = launched + 1
              /\ phase' = phase
         ELSE /\ phase' = "aborted"
              /\ UNCHANGED <<browser_pool, launched>>
    /\ UNCHANGED <<proxy_support, results, disk, save_failed, workerVars, now, resp>>

\* _initialize_browser returns after the loop; the app starts serving
StartServing ==
    /\ phase = "starting"
    /\ launched = PoolSize
    /\ phase' = "serving"
    /\ UNCHANGED <<launched, browser_pool, proxy_support, results, disk, save_failed,
                   workerVars, now, resp>>

\* ---------------------------------------------------------- HTTP handlers
\* the task id of the next admission: uuid4 is fresh, the lowest unused name
FreshId == CHOOSE j \in Jobs : pc[j] = "none" /\ \A k \in Jobs : pc[k] = "none" => j <= k

\* process_recaptcha creating the task without writing the Pending entry
process_recaptcha_NoPending(url, sitekey) ==
    /\ phase = "serving"
    /\ IF Falsy(url) \/ Falsy(sitekey)
       THEN /\ resp' = Served(url, sitekey,
                             Response(400, [error |-> "Both 'url' and 'sitekey' are required"]))
            /\ UNCHANGED <<results, pc>>
       ELSE /\ \E j \in Jobs : pc[j] = "none"
            /\ pc' = [pc EXCEPT ![FreshId] = "get"]
            /\ resp' = Served(url, sitekey, Response(202, [task_id |-> FreshId]))
            /\ UNCHANGED results
    /\ UNCHANGED <<phase, launched, browser_pool, proxy_support, disk, save_failed, index,
                   proxy, context, exc, start_time, elapsed_time, now>>

\* process_recaptcha with the check of line 218 reduced to  if not url
process_recaptcha_UrlOnly(url, sitekey) ==
    /\ phase = "serving"
    /\ IF Falsy(url)
       THEN /\ resp' = Served(url, sitekey,
                             Response(400, [error |-> "Both 'url' and 'sitekey' are required"]))
            /\ UNCHANGED <<results, pc>>
       ELSE /\ \E j \in Jobs : pc[j] = "none"
            /\ results' = SetItem(results, FreshId, StrVal("CAPTCHA_NOT_READY"))
            /\ pc' = [pc EXCEPT ![FreshId] = "get"]
            /\ resp' = Served(url, sitekey, Response(202, [task_id |-> FreshId]))
    /\ UNCHANGED <<phase, launched, browser_pool, proxy_support, disk, save_failed, index,
                   proxy, context, exc, start_time, elapsed_time, now>>

\* process_recaptcha turning a valid request away while the pool is empty
process_recaptcha_RejectsWhenBusy(url, sitekey) ==
    /\ phase = "serving"
    /\ IF Falsy(url) \/ Falsy(sitekey)
       THEN /\ resp' = Served(url, sitekey,
                             Response(400, [error |-> "Both 'url' and 'sitekey' are required"]))
            /\ UNCHANGED <<results, pc>>
       ELSE IF browser_pool = <<>>
       THEN /\ resp' = Served(url, sitekey, Response(500, [error |-> "busy"]))
            /\ UNCHANGED <<results, pc>>
       ELSE /\ \E j \in Jobs : pc[j] = "none"
            /\ results' = SetItem(results, FreshId, StrVal("CAPTCHA_NOT_READY"))
            /\ pc' = [pc EXCEPT ![FreshId] = "get"]
            /\ resp' = Served(url, sitekey, Response(202, [task_id |-> FreshId]))
    /\ UNCHANGED <<phase, launched, browser_pool, proxy_support, disk, save_failed, index,
                   proxy, context, exc, start_time, elapsed_time, now>>

\* process_recaptcha: 400 without url or sitekey; otherwise a Pending entry,
\* a task for _solve_recaptcha and 202 with the task id
process_recaptcha(url, sitekey) ==
    /\ phase = "serving"
    /\ IF Falsy(url) \/ Falsy(sitekey)
       THEN /\ resp' = Served(url, sitekey,
                             Response(400, [error |-> "Both 'url' and 'sitekey' are required"]))
            /\ UNCHANGED <<results, pc>>
       ELSE /\ \E j \in Jobs : pc[j] = "none"
            /\ results' = SetItem(results, FreshId, StrVal("CAPTCHA_NOT_READY"))
            /\ pc' = [pc EXCEPT ![FreshId] = "get"]
            /\ resp' = Served(url, sitekey, Response(202, [task_id |-> FreshId]))
    /\ UNCHANGED <<phase, launched, browser_pool, proxy_support, disk, save_failed, index,
                   proxy, context, exc, start_time, elapsed_time, now>>

\* the status code get_result gives a stored entry
StatusOf(result) == IF PyIn("CAPTCHA_FAIL", result) THEN 422 ELSE 200

\* get_result reads self.results and changes nothing: its response in the
\* current state, 400 for a missing or unknown id, else the entry and its status
get_result(task_id) ==
    IF FalsyId(task_id) \/ task_id.val \notin DOMAIN results
    THEN Response(400, [error |-> "Invalid task ID/Request parameter"])
    ELSE Response(StatusOf(results[task_id.val]), results[task_id.val])

\* ------------------------------------------------- _save_results, the clock
\* what results.json holds after _save_results: the mapping m when the write
\* succeeds; after an IOError (caught and logged) the old file or a torn one
SaveResults(m, ok) == IF ok THEN {Stored(m)} ELSE {disk, Malformed}

\* round(time.time() - start_time, 3)
Elapsed(j) == now - start_time[j]

\* ------------------------------------------------------- _solve_recaptcha
\* the task of job j ends with exception e raised outside try/finally: the
\* frame is left as it is, nothing is put back
Raise(j, e) ==
    /\ pc' = [pc EXCEPT ![j] = "dead"]
    /\ exc' = [exc EXCEPT ![j] = e]

\* Except removing the entry of the job instead of writing the Failed entry
Except_DropsEntry(j) ==
    /\ elapsed_time' = [elapsed_time EXCEPT ![j] = Elapsed(j)]
    /\ results' = [k \in DOMAIN results \ {j} |-> results[k]]
    /\ pc' = [pc EXCEPT ![j] = "close"]

\* except Exception: the Failed entry is written (not saved), then finally
Except(j) ==
    /\ elapsed_time' = [elapsed_time EXCEPT ![j] = Elapsed(j)]
    /\ results' = SetItem(results, j, DictVal("CAPTCHA_FAIL", Elapsed(j)))
    /\ pc' = [pc EXCEPT ![j] = "close"]

\* Get reading the head of the queue without removing it
Get_KeepsHandle(j) ==
    /\ pc[j] = "get"
    /\ browser_pool # <<>>
    /\ index' = [index EXCEPT ![j] = Head(browser_pool)]
    /\ pc' = [pc EXCEPT ![j] = "proxy"]
    /\ UNCHANGED <<phase, launched, browser_pool, proxy_support, results, disk, save_failed,
                   proxy, context, exc, start_time, elapsed_time, now, resp>>

\* index, browser = await self.browser_pool.get()
Get(j) ==
    /\ pc[j] = "get"
    /\ browser_pool # <<>>
    /\ index' = [index EXCEPT ![j] = Head(browser_pool)]
    /\ browser_pool' = Tail(browser_pool)
    /\ pc' = [pc EXCEPT ![j] = "proxy"]
    /\ UNCHANGED <<phase, launched, proxy_support, results, disk, save_failed, proxy,
                   context, exc, start_time, elapsed_time, now, resp>>

\* ValidProxy accepting every line of three fields or more
ValidProxy_AtLeast3(p) == Len(Split(p, ":")) >= 3

\* len(parts) == 3 or len(parts) == 5
ValidProxy(p) == Len(Split(p, ":")) \in {3, 5}

\* lines 153-173 up to the call of new_context: read proxies.txt, choose a
\* line, check its field count
SelectProxy(j) ==
    /\ pc[j] = "proxy"
    /\ \/ /\ ~proxy_support
          /\ pc' = [pc EXCEPT ![j] = "new_context"]
          /\ UNCHANGED <<proxy, exc>>
       \/ /\ proxy_support
          /\ Raise(j, "FileNotFoundError")
          /\ UNCHANGED proxy
       \/ /\ proxy_support
          /\ \E f \in ProxyFiles :
               LET proxies == ReadProxies(f) IN
               IF proxies = <<>>
               THEN /\ pc' = [pc EXCEPT ![j] = "new_context"]
                    /\ UNCHANGED <<proxy, exc>>
               ELSE \E i \in 1..Len(proxies) :
                      /\ proxy' = [proxy EXCEPT ![j] = proxies[i]]
                      /\ IF ValidProxy(proxies[i])
                         THEN /\ pc' = [pc EXCEPT ![j] = "new_context"]
                              /\ UNCHANGED exc
                         ELSE Raise(j, "ValueError")
    /\ UNCHANGED <<phase, launched, browser_pool, proxy_support, results, disk, save_failed,
                   index, context, start_time, elapsed_time, now, resp>>

\* context = await browser.new_context(...)
NewContext(j) ==
    /\ pc[j] = "new_context"
    /\ \E ok \in BOOLEAN :
         IF ok
         THEN /\ context' = [context EXCEPT ![j] = "open"]
              /\ pc' = [pc EXCEPT ![j] = "new_page"]
              /\ UNCHANGED exc
         ELSE /\ Raise(j, "ContextError")
              /\ UNCHANGED context
    /\ UNCHANGED <<phase, launched, browser_pool, proxy_support, results, disk, save_failed,
                   index, proxy, start_time, elapsed_time, now, resp>>

\* page = await context.new_page(); start_time = time.time()
NewPage(j) ==
    /\ pc[j] = "new_page"
    /\ \E ok \in BOOLEAN :
         IF ok
         THEN /\ start_time' = [start_time EXCEPT ![j] = now]
              /\ pc' = [pc EXCEPT ![j] = "route"]
              /\ UNCHANGED exc
         ELSE /\ Raise(j, "PageError")
              /\ UNCHANGED start_time
    /\ UNCHANGED <<phase, launched, browser_pool, proxy_support, results, disk, save_failed,
                   index, proxy, context, elapsed_time, now, resp>>

\* an awaited call inside the try block at position from: on return the task
\* goes on to position to, on an exception to the except block
TryStep(j, from, to) ==
    /\ pc[j] = from
    /\ \E ok \in BOOLEAN :
         IF ok
         THEN /\ pc' = [pc EXCEPT ![j] = to]
              /\ UNCHANGED <<results, elapsed_time>>
         ELSE Except(j)
    /\ UNCHANGED <<phase, launched, browser_pool, proxy_support, disk, save_failed, index,
                   proxy, context, exc, start_time, now, resp>>

\* await page.route(...)
Route(j) == TryStep(j, "route", "goto")

\* await page.goto(url_with_slash)
Goto(j) == TryStep(j, "goto", "aenter")

\* async with recaptchav2.AsyncSolver(page) as solver, then line 192
SolverEnter(j) ==
    /\ pc[j] = "aenter"
    /\ \E ok \in BOOLEAN :
         IF ok
         THEN /\ elapsed_time' = [elapsed_time EXCEPT ![j] = Elapsed(j)]
              /\ pc' = [pc EXCEPT ![j] = "solve"]
              /\ UNCHANGED results
         ELSE Except(j)
    /\ UNCHANGED <<phase, launched, browser_pool, proxy_support, disk, save_failed, index,
                   proxy, context, exc, start_time, now, resp>>

\* Solve with a _save_results that lets the IOError escape into the except
\* block of _solve_recaptcha
Solve_SaveRaises(j) ==
    /\ pc[j] = "solve"
    /\ \/ \E token \in Tokens :
            /\ results' = SetItem(results, j, DictVal(token, elapsed_time[j]))
            /\ disk' \in SaveResults(results', TRUE)
            /\ pc' = [pc EXCEPT ![j] = "aexit"]
            /\ UNCHANGED <<elapsed_time, save_failed>>
       \/ /\ Except(j)
          /\ disk' \in SaveResults(results, FALSE)
          /\ save_failed' = TRUE
       \/ /\ Except(j)
          /\ UNCHANGED <<disk, save_failed>>
    /\ UNCHANGED <<phase, launched, browser_pool, proxy_support, index, proxy,
                   context, exc, start_time, now, resp>>

\* token = await solver.solve_recaptcha(wait=True); the Succeeded entry is
\* written and _save_results called; a solver error goes to the except block
Solve(j) ==
    /\ pc[j] = "solve"
    /\ \/ \E token \in Tokens, wrote \in BOOLEAN :
            /\ results' = SetItem(results, j, DictVal(token, elapsed_time[j]))
            /\ disk' \in SaveResults(results', wrote)
            /\ save_failed' = (save_failed \/ ~wrote)
            /\ pc' = [pc EXCEPT ![j] = "aexit"]
            /\ UNCHANGED elapsed_time
       \/ /\ Except(j)
          /\ UNCHANGED <<disk, save_failed>>
    /\ UNCHANGED <<phase, launched, browser_pool, proxy_support, index, proxy,
                   context, exc, start_time, now, resp>>

\* the exit of the async with block after the body has completed
SolverExit(j) ==
    /\ pc[j] = "aexit"
    /\ \E ok \in BOOLEAN :
         IF ok
         THEN /\ pc' = [pc EXCEPT ![j] = "close"]
              /\ UNCHANGED <<results, elapsed_time>>
         ELSE Except(j)
    /\ UNCHANGED <<phase, launched, browser_pool, proxy_support, disk, save_failed, index,
                   proxy, context, exc, start_time, now, resp>>

\* Close ending the task without putting the handle back into the pool
Close_DropsHandle(j) ==
    /\ pc[j] = "close"
    /\ \E ok \in BOOLEAN :
         IF ok
         THEN /\ context' = [context EXCEPT ![j] = "closed"]
              /\ index' = [index EXCEPT ![j] = 0]
              /\ pc' = [pc EXCEPT ![j] = "done"]
              /\ UNCHANGED <<exc, browser_pool>>
         ELSE /\ Raise(j, "CloseError")
              /\ UNCHANGED <<context, browser_pool, index>>
    /\ UNCHANGED <<phase, launched, proxy_support, results, disk, save_failed, proxy,
                   start_time, elapsed_time, now, resp>>

\* Close with the two statements of finally swapped: the handle is put back
\* before context.close() is awaited
Close_PutsFirst(j) ==
    /\ pc[j] = "close"
    /\ browser_pool' = Append(browser_pool, index[j])
    /\ index' = [index EXCEPT ![j] = 0]
    /\ \E ok \in BOOLEAN :
         IF ok
         THEN /\ context' = [context EXCEPT ![j] = "closed"]
              /\ pc' = [pc EXCEPT ![j] = "done"]
              /\ UNCHANGED exc
         ELSE /\ Raise(j, "CloseError")
              /\ UNCHANGED context
    /\ UNCHANGED <<phase, launched, proxy_support, results, disk, save_failed, proxy,
                   start_time, elapsed_time, now, resp>>

\* finally: await context.close(), then the handle is put back; a close that
\* raises ends the task before the put
Close(j) ==
    /\ pc[j] = "close"
    /\ \E ok \in BOOLEAN :
         IF ok
         THEN /\ context' = [context EXCEPT ![j] = "closed"]
              /\ browser_pool' = Append(browser_pool, index[j])
              /\ index' = [index EXCEPT ![j] = 0]
              /\ pc' = [pc EXCEPT ![j] = "done"]
              /\ UNCHANGED exc
         ELSE /\ Raise(j, "CloseError")
              /\ UNCHANGED <<context, browser_pool, index>>
    /\ UNCHANGED <<phase, launched, proxy_support, results, disk, save_failed, proxy,
                   start_time, elapsed_time, now, resp>>

\* one step of the task of job j
Worker(j) ==
    \/ Get(j) \/ SelectProxy(j) \/ NewContext(j) \/ NewPage(j)
    \/ Route(j) \/ Goto(j) \/ SolverEnter(j) \/ Solve(j) \/ SolverExit(j)
    \/ Close(j)

Next ==
    \/ LaunchBrowser
    \/ StartServing
    \/ \E url \in StrArgs, sitekey \in StrArgs : process_recaptcha(url, sitekey)
    \/ \E j \in Jobs : Worker(j)

Spec == Init /\ [][Next]_vars

\* the event loop runs every ready task and every awaited external call
\* returns or raises: each enabled worker step and startup step is taken
FairSpec ==
    /\ Spec
    /\ WF_vars(LaunchBrowser)
    /\ WF_vars(StartServing)
    /\ \A j \in Jobs : WF_vars(Worker(j))

\* the pool on its own: no results.json at startup, no proxy support and
\* only /recaptcha requests that carry both arguments
PoolInit == Init /\ disk = Absent /\ ~proxy_support

PoolNext ==
    \/ LaunchBrowser
    \/ StartServing
    \/ process_recaptcha(Arg("x"), Arg("x"))
    \/ \E j \in Jobs : Worker(j)

PoolSpec == PoolInit /\ [][PoolNext]_vars

\* PoolSpec under the fairness of FairSpec
FairPoolSpec ==
    /\ PoolSpec
    /\ WF_vars(LaunchBrowser)
    /\ WF_vars(StartServing)
    /\ \A j \in Jobs : WF_vars(Worker(j))

\* time passes between two steps of the event loop
Tick ==
    /\ now < MaxTime
    /\ now' = now + 1
    /\ UNCHANGED <<phase, launched, browser_pool, proxy_support, results, disk, save_failed,
                   workerVars, resp>>

\* PoolSpec with a running clock
TimedNext == PoolNext \/ Tick

TimedSpec == PoolInit /\ [][TimedNext]_vars

\* ------------------------------------------------------------ vocabulary
PendingEntry == StrVal("CAPTCHA_NOT_READY")

\* the entry the failure path writes: value CAPTCHA_FAIL
IsFailed(e) == e.type = "dict" /\ e.dict.value = "CAPTCHA_FAIL"

\* a success entry: a dict holding a token
IsSucceeded(e) == e.type = "dict" /\ e.dict.value \in Tokens

IsTerminal(e) == IsFailed(e) \/ IsSucceeded(e)

Admitted == {j \in Jobs : pc[j] # "none"}

\* the task of the job exists and has not ended ("done": returned, "dead":
\* ended with an exception)
InFlight(j) == pc[j] \notin {"none", "done", "dead"}

\* jobs that took a handle and have not put it back
CheckedOut == {j \in Jobs : index[j] # 0}

Handles == 1..PoolSize

\* how many times handle h is in the pool
InPool(h) == Cardinality({i \in 1..Len(browser_pool) : browser_pool[i] = h})

Owners(h) == {j \in Jobs : index[j] = h}

\* ------------------------------------------------------------------ claims

\* C1: every handle a job has checked out is eventually released, whatever
\* the outcome of the job (stated for the code: violated, a task that ends
\* outside try/finally keeps its handle for ever).
C1_EveryHandleReleased == \A j \in Jobs : (index[j] # 0) ~> (index[j] = 0)

\* C2: at most PoolSize handles are checked out in every reachable state.
C2_AtMostPoolSizeCheckedOut == Cardinality(CheckedOut) <= PoolSize

\* C2 witness: all handles are checked out while another admitted job waits.
C2_Witness ==
    /\ Cardinality(CheckedOut) = PoolSize
    /\ \E j \in Jobs : pc[j] = "get"

\* C3: an entry is Pending right after admission and, once Succeeded or
\* Failed, is never written again (stated for the code: violated, an
\* exception after the Succeeded write overwrites it with Failed).
C3_TerminalWrittenOnce ==
    [][\A j \in Jobs :
         /\ (pc[j] = "none" /\ pc'[j] # "none") => results'[j] = PendingEntry
         /\ (j \in DOMAIN results /\ IsTerminal(results[j])) => results'[j] = results[j]]_vars

\* C4: GET /result answers 422 for an entry written by the failure path and
\* 200 for a pending or success entry (stated for the code: violated, the
\* failure entry is a dict and is answered 200).
C4_FailedIs422 ==
    \A j \in Jobs \cap DOMAIN results :
       /\ IsFailed(results[j]) => get_result(Arg(j)).status = 422
       /\ (results[j] = PendingEntry \/ IsSucceeded(results[j]))
             => get_result(Arg(j)).status = 200

\* C5: every admitted job eventually has a terminal entry (stated for the
\* code: violated, a task that ends before the try block leaves Pending).
C5_AdmittedReachesTerminal ==
    \A j \in Jobs : (pc[j] # "none") ~> (j \in DOMAIN results /\ IsTerminal(results[j]))

\* C6: a job whose proxy line has a field count other than 3 or 5 ends with
\* a Failed entry and its handle back in the pool (stated for the code:
\* violated, the entry stays Pending and the handle is kept).
C6_BadProxyFailsOnlyTheJob ==
    \A j \in Jobs :
       exc[j] = "ValueError" =>
          /\ IsFailed(results[j])
          /\ index[j] = 0
          /\ \A h \in Handles : InPool(h) = 1 \/ \E k \in Jobs : InFlight(k) /\ index[k] = h

\* C7: once the mapping has been mutated and no write has failed, results.json
\* holds the whole in-memory mapping (stated for the code: violated, only the
\* success path saves).
C7_DiskHoldsMapping ==
    (~save_failed /\ Admitted # {}) => disk = Stored(results)

\* C8: a /recaptcha request without url or sitekey is answered 400 and that
\* step changes neither the mapping, the file, the tasks nor the pool; every
\* step that adds an entry or starts a task answers 202 to a request that had
\* both arguments.
C8_BadRequestCreatesNoJob ==
    [][/\ (Falsy(resp'.url) \/ Falsy(resp'.sitekey)) /\ resp'.status # 0
            => resp'.status = 400
       /\ resp' # resp /\ resp'.status = 400
            => UNCHANGED <<results, disk, pc, index, browser_pool>>
       /\ (DOMAIN results' # DOMAIN results \/ \E j \in Jobs : pc[j] = "none" /\ pc'[j] # "none")
            => /\ resp'.status = 202
               /\ ~Falsy(resp'.url) /\ ~Falsy(resp'.sitekey)]_vars

\* C8 witness: a request without sitekey was answered 400 while a job exists.
C8_Witness ==
    /\ resp.status = 400
    /\ ~Falsy(resp.url) /\ Falsy(resp.sitekey)
    /\ Admitted # {}

\* C9: a valid request is answered 202 whatever the pool holds, and a job's
\* checkout completes only in a state where fewer than PoolSize handles are
\* checked out, with a handle nobody holds.
C9_ExcessJobsQueue ==
    [][/\ (resp' # resp /\ ~Falsy(resp'.url) /\ ~Falsy(resp'.sitekey))
            => resp'.status = 202 /\ pc'[resp'.body.task_id] = "get"
       /\ \A j \in Jobs :
            (pc[j] = "get" /\ pc'[j] # "get")
               => /\ Cardinality(CheckedOut) < PoolSize
                  /\ index'[j] \in Handles
                  /\ Owners(index'[j]) = {}]_vars

\* C9 witness: more jobs than handles were admitted, one has put its handle
\* back and another holds one.
C9_Witness ==
    /\ Cardinality(Admitted) > PoolSize
    /\ \E j, k \in Jobs : j # k /\ pc[k] = "done" /\ index[j] # 0

\* C10: while serving, every handle is either once in the pool and owned by
\* nobody, or out of the pool and owned by exactly one job in flight (stated
\* for the code: violated, an ended task can keep its handle).
C10_HandlePartition ==
    phase = "serving" =>
       /\ Len(browser_pool) + Cardinality(CheckedOut) = PoolSize
       /\ \A h \in Handles :
            \/ InPool(h) = 1 /\ Owners(h) = {}
            \/ /\ InPool(h) = 0
               /\ Cardinality(Owners(h)) = 1
               /\ \A j \in Owners(h) : InFlight(j)

\* C11: the step in which a write of results.json first fails is the step of
\* a job that has just been solved: its entry is the Succeeded entry with the
\* token, its task goes on to the exit of the solver block without an
\* exception, it still holds its handle for the release in finally, and the
\* pool, the other tasks and the serving state are as before.
C11_SaveFailureSwallowed ==
    [][(~save_failed /\ save_failed') =>
          \E j \in Jobs :
             /\ pc[j] = "solve" /\ pc'[j] = "aexit"
             /\ j \in DOMAIN results' /\ IsSucceeded(results'[j])
             /\ \A k \in DOMAIN results \ {j} : results'[k] = results[k]
             /\ \A k \in Jobs \ {j} : pc'[k] = pc[k]
             /\ exc' = exc /\ index' = index /\ browser_pool' = browser_pool
             /\ phase' = "serving"]_vars

\* C11 witness: after a failed write the solved job has ended with its
\* Succeeded entry, its handle is back in the pool and a later job is admitted.
C11_Witness ==
    /\ save_failed
    /\ disk # Stored(results)
    /\ \E j, k \in Jobs :
         /\ j # k
         /\ pc[j] = "done" /\ IsSucceeded(results[j]) /\ index[j] = 0
         /\ pc[k] = "get"
         /\ browser_pool # <<>>

\* C12: GET /result without id, with an empty id or with an id that is not a
\* key of the mapping answers 400 with the error body, and the id of every
\* admitted job is answered something other than 400.
C12_UnknownIdIs400 ==
    /\ \A a \in IdArgs :
          (FalsyId(a) \/ a.val \notin DOMAIN results)
             => get_result(a) = Response(400, [error |-> "Invalid task ID/Request parameter"])
    /\ \A j \in Admitted : get_result(Arg(j)).status \in {200, 422}

\* C12 witness: a job has ended and its id is still answered, while a
\* request without id and one with an id never handed out are answered 400.
C12_Witness ==
    /\ \E j \in Jobs : pc[j] \in {"done", "dead"} /\ get_result(Arg(j)).status = 200
    /\ get_result(NoArg).status = 400
    /\ \E i \in Ids : i \notin DOMAIN results /\ get_result(Arg(i)).status = 400

\* C13: a startup that was aborted stays aborted; the service is serving only
\* with all PoolSize handles created (each in the pool or checked out); and
\* a request is answered, a job admitted or a handle checked out only while
\* serving.
C13_NoServiceWithoutFullPool ==
    [][/\ phase = "aborted" => phase' = "aborted"
       /\ phase' = "serving" =>
             /\ launched' = PoolSize
             /\ Len(browser_pool') + Cardinality(CheckedOut') = PoolSize
       /\ (Admitted' # {} \/ CheckedOut' # {} \/ resp' # NoResp) => phase' = "serving"]_vars

\* C13 witness: a browser launch failed, startup is aborted with fewer than
\* PoolSize handles and nothing has been served.
C13_Witness ==
    /\ phase = "aborted"
    /\ launched < PoolSize
    /\ Len(browser_pool) < PoolSize
    /\ Admitted = {} /\ resp = NoResp

\* the number of fields of a line: one more than its number of colons
NumFields(p) == 1 + Cardinality({i \in 1..Len(p) : p[i] = ":"})

\* C14: when a job leaves the proxy selection, a selected line of 3 or 5
\* fields takes it on to the creation of a context with that proxy, a
\* selected line of any other field count ends it with ValueError before any
\* context exists, and with no line (proxy support off, or an empty candidate
\* list) it goes on to create a context without proxy.
C14_ProxyFieldCount ==
    [][\A j \in Jobs :
         (pc[j] = "proxy" /\ pc'[j] # "proxy") =>
            /\ ~proxy_support => proxy'[j] = NoProxy /\ pc'[j] = "new_context"
            /\ proxy'[j] = NoProxy =>
                  pc'[j] = "new_context" \/ exc'[j] = "FileNotFoundError"
            /\ proxy'[j] # NoProxy =>
                  IF NumFields(proxy'[j]) \in {3, 5}
                  THEN pc'[j] = "new_context" /\ exc'[j] = NoException
                  ELSE pc'[j] = "dead" /\ exc'[j] = "ValueError" /\ context'[j] = "none"]_vars

\* C14 witness: one job has run to its end with a 5-field proxy and another
\* was ended by a line whose field count is neither 3 nor 5.
C14_Witness ==
    \E j, k \in Jobs :
       /\ exc[j] = "ValueError" /\ NumFields(proxy[j]) \notin {3, 5}
       /\ pc[k] = "done" /\ NumFields(proxy[k]) = 5

\* C15: before anything is served the in-memory mapping is the content of
\* results.json when that is a well-formed mapping and is empty otherwise, and
\* whatever the file holds the server object exists (stated for the code:
\* violated, a file that cannot be decoded makes __init__ raise).
C15_StartupLoad ==
    (phase \in {"starting", "crashed"} /\ launched = 0) =>
       /\ disk.state = "ok" => results = disk.content
       /\ disk.state # "ok" => results = EmptyMap
       /\ phase # "crashed"

\* C16: the step that admits a job writes its Pending entry and leaves its
\* task at its first statement; after every step the id of every admitted job
\* and the id a 202 carried are keys of the mapping; and no step turns a
\* terminal entry back into Pending.
C16_PendingWrittenAtAdmission ==
    [][/\ \A j \in Jobs :
            (pc[j] = "none" /\ pc'[j] # "none")
               => pc'[j] = "get" /\ j \in DOMAIN results' /\ results'[j] = PendingEntry
       /\ \A j \in Admitted' : j \in DOMAIN results'
       /\ resp'.status = 202 => resp'.body.task_id \in DOMAIN results'
       /\ \A j \in Jobs \cap DOMAIN results :
            IsTerminal(results[j]) => j \in DOMAIN results' /\ results'[j] # PendingEntry]_vars

\* C16 witness: the job whose id the last 202 carried has ended and its
\* entry is the terminal one its worker wrote.
C16_Witness ==
    /\ resp.status = 202
    /\ pc[resp.body.task_id] = "done"
    /\ IsTerminal(results[resp.body.task_id])

C18_ClosedBeforeRelease ==
    [][/\ \A j \in Jobs :
            context'[j] = "open" =>
               /\ index'[j] # 0
               /\ \A i \in 1..Len(browser_pool') : browser_pool'[i] # index'[j]
       /\ \A j \in Jobs :
            (index[j] # 0 /\ index'[j] = 0) => context[j] = "open" /\ context'[j] = "closed"]_vars

\* C18 witness: a job has closed its context and put its handle back, and
\* another job has an open context on a handle.
C18_Witness ==
    \E j, k \in Jobs :
       /\ pc[j] = "done" /\ context[j] = "closed" /\ index[j] = 0
       /\ context[k] = "open" /\ index[k] # 0 /\ InPool(index[k]) = 0

\* C19: a step of the task of job j leaves the set of keys of the mapping and
\* the entry of every key other than j as they were.
C19_WorkerWritesOwnKey ==
    [][\A j \in Jobs :
         (pc[j] # "none" /\ pc'[j] # pc[j]) =>
            /\ DOMAIN results' = DOMAIN results
            /\ \A k \in DOMAIN results \ {j} : results'[k] = results[k]]_vars

\* C19 witness: two jobs have written different terminal entries and the
\* entry loaded from results.json at startup is still there.
C19_Witness ==
    /\ OldId \in DOMAIN results /\ results[OldId] = OldMap[OldId]
    /\ \E j, k \in Jobs \cap DOMAIN results :
         IsSucceeded(results[j]) /\ IsFailed(results[k])

\* C20: the task's clock is started when its checkout completes, and the
\* elapsed time written with the token is the reading of the clock at that
\* write minus its start (stated for the code: violated, start_time is bound
\* after the checkout and elapsed_time is computed before the solver runs).
C20_ElapsedCoversWaitAndSolve ==
    [][\A j \in Jobs :
         /\ (pc[j] = "get" /\ pc'[j] # "get") => start_time'[j] # Unset
         /\ (pc[j] = "solve" /\ pc'[j] = "aexit")
               => results'[j].dict.elapsed_time = now - start_time[j]]_vars

====
